---- MODULE Spec2Model ----
(***************************************************************************)
(* Model of the wine-quality dashboard's Home component: the feature       *)
(* state, the slider / type handlers and the asynchronous handlePredict(). *)
(*                                                                         *)
(* Two variants of the component are in the repository:                    *)
(*   "proxy"  : src/wine-quality-dashboard/src/app/page.tsx                *)
(*              (same-origin /api/predict, catch sets err.message)         *)
(*   "direct" : src/unnamed/part_000, lines 32-214                         *)
(*              (absolute URL, catch with the CORS branch)                 *)
(*                                                                         *)
(* Numbers are fixed-point integers in units of 1/Scale (0.0001, the       *)
(* smallest slider step), so 10.5 is 105000.  JavaScript values are        *)
(* records tagged by the field t.  Strings are sequences of words, so that *)
(* String.prototype.includes('fetch') is a search, not a table.            *)
(***************************************************************************)
EXTENDS Integers, Sequences, FiniteSets, TLC

VARIABLES
    variant,     \* which of the two source files is deployed
    features,    \* useState features        (page.tsx:22, part_000:68)
    prediction,  \* useState prediction      (page.tsx:33, part_000:79)
    isLoading,   \* useState isLoading       (page.tsx:34, part_000:80)
    error,       \* useState error           (page.tsx:35, part_000:81)
    calls,       \* running handlePredict() invocations, each at an await
    issued,      \* number of fetch() calls made so far
    edits,       \* number of handler calls that edited the features
    crashed      \* the render threw, the component is unmounted

vars == <<variant, features, prediction, isLoading, error, calls, issued, edits, crashed>>

----------------------------------------------------------------------------
(* Bounds of the model *)

MaxEdits == 2
MaxRequests == 2
MaxCalls == 2

\* one unit is 1/Scale: the finest step of the range table is 0.0001
Scale == 10000

----------------------------------------------------------------------------
(* JavaScript values *)

Null == [t |-> "null"]
Undefined == [t |-> "undefined"]
NaN == [t |-> "NaN"]
Num(n) == [t |-> "number", v |-> n]
Str(s) == [t |-> "string", s |-> s]

IsFinite(x) == x.t = "number"

\* ToBoolean: null, undefined, NaN, 0 and "" are falsy
Truthy(x) ==
    CASE x.t = "null" -> FALSE
      [] x.t = "undefined" -> FALSE
      [] x.t = "NaN" -> FALSE
      [] x.t = "number" -> x.v # 0
      [] x.t = "string" -> x.s # <<>>
      [] OTHER -> TRUE

\* a || b
OrElse(a, b) == IF Truthy(a) THEN a ELSE b

\* s.includes(word), at the granularity of words
Includes(s, word) == \E i \in 1..Len(s) : s[i] = word

----------------------------------------------------------------------------
(* parseFloat: skip leading blanks, an optional sign, the longest prefix   *)
(* digits [. digits]; NaN when that prefix holds no digit.  The raw        *)
(* strings of the model hold no exponent and at most four decimals.        *)

Digits == {"0", "1", "2", "3", "4", "5", "6", "7", "8", "9"}

DigitVal(c) ==
    CASE c = "0" -> 0 [] c = "1" -> 1 [] c = "2" -> 2 [] c = "3" -> 3
      [] c = "4" -> 4 [] c = "5" -> 5 [] c = "6" -> 6 [] c = "7" -> 7
      [] c = "8" -> 8 [] c = "9" -> 9

RECURSIVE SkipBlanks(_)
SkipBlanks(s) ==
    IF s # <<>> /\ Head(s) = " " THEN SkipBlanks(Tail(s)) ELSE s

\* length of the longest prefix of s made of digits
RECURSIVE DigitRun(_)
DigitRun(s) ==
    IF s # <<>> /\ Head(s) \in Digits THEN 1 + DigitRun(Tail(s)) ELSE 0

\* the digits s[1..n] read as a decimal integer
RECURSIVE DigitsValue(_, _)
DigitsValue(s, n) ==
    IF n = 0 THEN 0 ELSE 10 * DigitsValue(s, n - 1) + DigitVal(s[n])

\* the digits s[1..n] read as a fraction, in units of 1/unit
RECURSIVE FractionValue(_, _, _)
FractionValue(s, n, unit) ==
    IF n = 0 \/ unit < 10 THEN 0
    ELSE DigitVal(Head(s)) * (unit \div 10) + FractionValue(Tail(s), n - 1, unit \div 10)

ParseUnsigned(s) ==
    LET ni == DigitRun(s)
        rest == SubSeq(s, ni + 1, Len(s))
        hasDot == rest # <<>> /\ Head(rest) = "."
        frac == IF hasDot THEN Tail(rest) ELSE <<>>
        nf == DigitRun(frac)
    IN  IF ni = 0 /\ nf = 0 THEN NaN
        ELSE Num(DigitsValue(s, ni) * Scale + FractionValue(frac, nf, Scale))

parseFloat(raw) ==
    LET s == SkipBlanks(raw)
        signed == s # <<>> /\ Head(s) \in {"+", "-"}
        u == ParseUnsigned(IF signed THEN Tail(s) ELSE s)
    IN  IF signed /\ Head(s) = "-" /\ IsFinite(u) THEN Num(0 - u.v) ELSE u

\* the raw strings the handlers are called with
RawValues ==
    { <<"7">>,                      \* 7
      <<"0", ".", "5">>,            \* 0.5
      <<"1", "2", ".", "5", "x">>,  \* parses to 12.5
      <<"-", "1">>,                 \* -1
      <<"a", "b", "c">> }           \* NaN

----------------------------------------------------------------------------
(* The feature table *)

Variants == {"proxy", "direct"}

FeatureNames ==
    { "fixed acidity", "volatile acidity", "citric acid", "chlorides",
      "free sulfur dioxide", "density", "alcohol", "type_white" }

\* featureRanges, min and max in units of 1/Scale
featureRanges(v) ==
    IF v = "proxy"
    THEN [ n \in FeatureNames |->
            CASE n = "fixed acidity" -> [min |-> 40000, max |-> 160000]
              [] n = "volatile acidity" -> [min |-> 0, max |-> 16000]
              [] n = "citric acid" -> [min |-> 0, max |-> 17000]
              [] n = "chlorides" -> [min |-> 0, max |-> 7000]
              [] n = "free sulfur dioxide" -> [min |-> 10000, max |-> 3000000]
              [] n = "density" -> [min |-> 9800, max |-> 10400]
              [] n = "alcohol" -> [min |-> 80000, max |-> 150000]
              [] n = "type_white" -> [min |-> 0, max |-> 10000] ]
    ELSE [ n \in FeatureNames |->
            CASE n = "fixed acidity" -> [min |-> 40000, max |-> 120000]
              [] n = "volatile acidity" -> [min |-> 0, max |-> 9000]
              [] n = "citric acid" -> [min |-> 0, max |-> 8000]
              [] n = "chlorides" -> [min |-> 0, max |-> 2000]
              [] n = "free sulfur dioxide" -> [min |-> 10000, max |-> 650000]
              [] n = "density" -> [min |-> 9800, max |-> 10100]
              [] n = "alcohol" -> [min |-> 80000, max |-> 140000]
              [] n = "type_white" -> [min |-> 0, max |-> 10000] ]

\* the useState initial value of features
InitialFeatures ==
    [ n \in FeatureNames |->
        CASE n = "fixed acidity" -> Num(70000)
          [] n = "volatile acidity" -> Num(2700)
          [] n = "citric acid" -> Num(3600)
          [] n = "chlorides" -> Num(500)
          [] n = "free sulfur dioxide" -> Num(300000)
          [] n = "density" -> Num(9950)
          [] n = "alcohol" -> Num(105000)
          [] n = "type_white" -> Num(Scale) ]

\* min <= x <= max; every comparison with NaN is false
InRange(v, n, x) ==
    /\ IsFinite(x)
    /\ featureRanges(v)[n].min <= x.v
    /\ x.v <= featureRanges(v)[n].max

\* setFeatures(prev => ({...prev, [name]: parseFloat(value)}))
SliderUpdate(prev, name, value) == [prev EXCEPT ![name] = parseFloat(value)]

\* setFeatures(prev => ({...prev, 'type_white': value}))
TypeUpdate(prev, value) == [prev EXCEPT !["type_white"] = Num(value * Scale)]

----------------------------------------------------------------------------
(* The request *)

WireFields ==
    { "fixed_acidity", "volatile_acidity", "citric_acid", "chlorides",
      "free_sulfur_dioxide", "density", "alcohol", "type_white" }

\* the wire field a feature is sent as
WireName(n) ==
    CASE n = "fixed acidity" -> "fixed_acidity"
      [] n = "volatile acidity" -> "volatile_acidity"
      [] n = "citric acid" -> "citric_acid"
      [] n = "chlorides" -> "chlorides"
      [] n = "free sulfur dioxide" -> "free_sulfur_dioxide"
      [] n = "density" -> "density"
      [] n = "alcohol" -> "alcohol"
      [] n = "type_white" -> "type_white"

\* JSON.stringify of a number: NaN and the infinities are written as null
JSONNumber(x) == IF IsFinite(x) THEN x ELSE Null

\* JSON.stringify({fixed_acidity: features['fixed acidity'], ...})
RequestBody(f) ==
    [ fixed_acidity |-> JSONNumber(f["fixed acidity"]),
      volatile_acidity |-> JSONNumber(f["volatile acidity"]),
      citric_acid |-> JSONNumber(f["citric acid"]),
      chlorides |-> JSONNumber(f["chlorides"]),
      free_sulfur_dioxide |-> JSONNumber(f["free sulfur dioxide"]),
      density |-> JSONNumber(f["density"]),
      alcohol |-> JSONNumber(f["alcohol"]),
      type_white |-> JSONNumber(f["type_white"]) ]

----------------------------------------------------------------------------
(* The responses of the endpoint and the failures of the runtime *)

\* the body of a response: text that is no JSON, or a JSON document
Unparsable == [kind |-> "unparsable"]
Json(data) == [kind |-> "json", data |-> data]

\* a JSON object read through its two fields; an absent field reads undefined
PredictedQualities == {Undefined, Num(62000)}
ErrorFields == {Undefined, Str(<<"model", "unavailable">>)}
Objects == [predicted_quality : PredictedQualities, error : ErrorFields]

Bodies == {Unparsable, Json(Null)} \cup {Json(o) : o \in Objects}
Responses == [ok : BOOLEAN, body : Bodies]

\* the message of the TypeError a rejected fetch() carries:
\* Chromium, Gecko and WebKit word it differently
TransportMessages ==
    { <<"Failed", "to", "fetch">>,
      <<"NetworkError", "when", "attempting", "to", "fetch", "resource.">>,
      <<"Load", "failed">> }

\* response.json() on a body that is no JSON rejects with a SyntaxError
JsonSyntaxMessage == <<"Unexpected", "end", "of", "JSON", "input">>

\* reading a property of null throws a TypeError
NullPropertyMessage == <<"Cannot", "read", "properties", "of", "null">>

GenericMessage == <<"Prediction", "request", "failed">>

NetworkErrorMessage ==
    << "Network", "error:", "This", "could", "be", "due", "to", "CORS",
       "restrictions.", "Please", "ensure", "the", "API", "allows",
       "requests", "from", "this", "origin." >>

UnknownErrorMessage == <<"An", "unknown", "error", "occurred">>

\* an Error object
ErrorObject(name, message) == [name |-> name, message |-> Str(message)]

Thrown(err) == [thrown |-> TRUE, err |-> err, value |-> Undefined]
Returned(value) == [thrown |-> FALSE, err |-> Undefined, value |-> value]

\* the try block after fetch() has resolved:
\*   const data = await response.json();
\*   if (!response.ok) throw new Error(data.error || 'Prediction request failed');
\*   setPrediction(data.predicted_quality);
TryBlockWrongField(response) ==
    IF response.body.kind = "unparsable"
    THEN Thrown(ErrorObject("SyntaxError", JsonSyntaxMessage))
    ELSE LET data == response.body.data IN
         IF data = Null
         THEN Thrown(ErrorObject("TypeError", NullPropertyMessage))
         ELSE IF ~response.ok
         THEN Thrown(ErrorObject("Error", OrElse(data.error, Str(GenericMessage)).s))
         ELSE Returned(data.error)

TryBlock(response) ==
    IF response.body.kind = "unparsable"
    THEN Thrown(ErrorObject("SyntaxError", JsonSyntaxMessage))
    ELSE LET data == response.body.data IN
         IF data = Null
         THEN Thrown(ErrorObject("TypeError", NullPropertyMessage))
         ELSE IF ~response.ok
         THEN Thrown(ErrorObject("Error", OrElse(data.error, Str(GenericMessage)).s))
         ELSE Returned(data.predicted_quality)

isErrorWithMessage(err) ==
    /\ "message" \in DOMAIN err
    /\ err.message.t = "string"

\* the catch block: the message handed to setError
CatchMessage(v, err) ==
    IF v = "proxy"
    THEN err.message
    ELSE IF /\ err.name = "TypeError"
            /\ isErrorWithMessage(err)
            /\ Includes(err.message.s, "fetch")
         THEN Str(NetworkErrorMessage)
         ELSE IF isErrorWithMessage(err) THEN err.message
              ELSE Str(UnknownErrorMessage)

\* setIsLoading(true); setError(null); setPrediction(null);
StartKeepsError == [isLoading |-> TRUE, error |-> error, prediction |-> Null]

StartKeepsPrediction == [isLoading |-> TRUE, error |-> Null, prediction |-> prediction]

StartOutcome == [isLoading |-> TRUE, error |-> Null, prediction |-> Null]

\* finally { setIsLoading(false); }
FinallySkipped == isLoading

FinallyLoading == FALSE

\* the state setters a settled attempt runs, batched into one render
Settle(v, attempt) ==
    IF attempt.thrown
    THEN [ isLoading |-> FinallyLoading,
           error |-> CatchMessage(v, attempt.err),
           prediction |-> prediction ]
    ELSE [ isLoading |-> FinallyLoading,
           error |-> error,
           prediction |-> attempt.value ]

\* {prediction !== null && ... prediction.toFixed(1) ...}
RenderThrows(p) == p # Null /\ p.t \notin {"number", "NaN"}

\* <button onClick={handlePredict} disabled={isLoading}>
PredictNeverDisabled == FALSE

PredictDisabled == isLoading

\* a running handlePredict(): suspended at fetch() or at response.json()
NoMessage == [kind |-> "none"]
AwaitFetch(body) == [pc |-> "awaitFetch", request |-> body, response |-> NoMessage]
AwaitJson(response) == [pc |-> "awaitJson", request |-> NoMessage, response |-> response]

Remove(s, i) == SubSeq(s, 1, i - 1) \o SubSeq(s, i + 1, Len(s))

----------------------------------------------------------------------------
Init ==
    /\ variant \in Variants
    /\ features = InitialFeatures
    /\ prediction = Null
    /\ isLoading = FALSE
    /\ error = Null
    /\ calls = <<>>
    /\ issued = 0
    /\ edits = 0
    /\ crashed = FALSE

\* value is any string: the handler itself checks nothing, only the range
\* input that calls it keeps its value within min and max
handleSliderChange(name, value) ==
    /\ ~crashed
    /\ edits < MaxEdits
    /\ features' = SliderUpdate(features, name, value)
    /\ edits' = edits + 1
    /\ UNCHANGED <<variant, prediction, isLoading, error, calls, issued, crashed>>

handleTypeChange(value) ==
    /\ ~crashed
    /\ edits < MaxEdits
    /\ features' = TypeUpdate(features, value)
    /\ edits' = edits + 1
    /\ UNCHANGED <<variant, prediction, isLoading, error, calls, issued, crashed>>

\* a click on the predict button while it is enabled: handlePredict() runs
\* up to its first await
ClickPredict ==
    /\ ~crashed
    /\ ~PredictDisabled
    /\ issued < MaxRequests
    /\ Len(calls) < MaxCalls
    /\ isLoading' = StartOutcome.isLoading
    /\ error' = StartOutcome.error
    /\ prediction' = StartOutcome.prediction
    /\ calls' = Append(calls, AwaitFetch(RequestBody(features)))
    /\ issued' = issued + 1
    /\ UNCHANGED <<variant, features, edits, crashed>>

\* a click on the predict button while it is disabled: no event is dispatched
ClickDisabledPredict ==
    /\ ~crashed
    /\ PredictDisabled
    /\ UNCHANGED vars

\* fetch() resolves with a response; handlePredict goes on to response.json()
FetchResolves(i, response) ==
    /\ ~crashed
    /\ calls[i].pc = "awaitFetch"
    /\ calls' = [calls EXCEPT ![i] = AwaitJson(response)]
    /\ UNCHANGED <<variant, features, prediction, isLoading, error, issued, edits, crashed>>

\* the outcome of one attempt is committed and rendered: the setters that
\* run in one promise continuation (setPrediction or setError, then
\* setIsLoading in finally) are batched into a single render
Commit(i, attempt) ==
    /\ isLoading' = Settle(variant, attempt).isLoading
    /\ error' = Settle(variant, attempt).error
    /\ prediction' = Settle(variant, attempt).prediction
    /\ crashed' = RenderThrows(prediction')
    /\ calls' = Remove(calls, i)
    /\ UNCHANGED <<variant, features, issued, edits>>

\* fetch() rejects: no response at all
FetchRejects(i, message) ==
    /\ ~crashed
    /\ calls[i].pc = "awaitFetch"
    /\ Commit(i, Thrown(ErrorObject("TypeError", message)))

\* response.json() settles and the rest of handlePredict runs
JsonSettles(i) ==
    /\ ~crashed
    /\ calls[i].pc = "awaitJson"
    /\ Commit(i, TryBlock(calls[i].response))

Next ==
    \/ \E n \in FeatureNames, r \in RawValues : handleSliderChange(n, r)
    \/ \E v \in {0, 1} : handleTypeChange(v)
    \/ ClickPredict
    \/ ClickDisabledPredict
    \/ \E i \in 1..Len(calls), r \in Responses : FetchResolves(i, r)
    \/ \E i \in 1..Len(calls), m \in TransportMessages : FetchRejects(i, m)
    \/ \E i \in 1..Len(calls) : JsonSettles(i)

Spec == Init /\ [][Next]_vars

----------------------------------------------------------------------------
(* The steps the claims speak of *)

\* the outcome is Pending
Pending == isLoading

\* this step is an accepted predict(): one more fetch() is issued
Submits == issued' # issued

\* this step ends the attempt that waited on fetch(): a transport failure
TransportFails ==
    /\ calls # <<>>
    /\ calls[1].pc = "awaitFetch"
    /\ Len(calls') < Len(calls)

\* this step ends the attempt that held a response
ResponseSettles ==
    /\ calls # <<>>
    /\ calls[1].pc = "awaitJson"
    /\ Len(calls') < Len(calls)

\* the body is a JSON object with a numeric predicted_quality
HasQuality(body) ==
    /\ body.kind = "json"
    /\ body.data # Null
    /\ body.data.predicted_quality.t = "number"

\* the body is a JSON object with an error field
HasErrorField(body) ==
    /\ body.kind = "json"
    /\ body.data # Null
    /\ body.data.error # Undefined

Failed(m) == ~isLoading /\ prediction = Null /\ error = m
Succeeded(v) == ~isLoading /\ prediction = v /\ error = Null

----------------------------------------------------------------------------
(* C1: at most one prediction request is in flight at any time, and a      *)
(* request in flight keeps the outcome Pending: a click on the predict     *)
(* button while the outcome is Pending starts no second handlePredict().   *)
C1_SingleFlight ==
    /\ Len(calls) <= 1
    /\ calls # <<>> => Pending

\* a second request is in flight, alone, and has got its response
C1_Witness ==
    /\ issued >= 2
    /\ Len(calls) = 1
    /\ calls[1].pc = "awaitJson"
    /\ Pending

(* C2: after any sequence of setFeature calls with arbitrary raw values,   *)
(* every feature lies within [min, max] of the range table.                *)
C2_FeaturesInRange ==
    \A n \in FeatureNames : InRange(variant, n, features[n])

(* C3: the three flags always encode exactly one of Idle, Pending,         *)
(* Succeeded, Failed: no value or message while loading, and never a value *)
(* together with a message.                                                *)
C3_OneShape ==
    /\ isLoading => (prediction = Null /\ error = Null)
    /\ ~(prediction # Null /\ error # Null)

\* Failed, after an attempt that came after an earlier one
C3_Witness ==
    /\ issued >= 2
    /\ ~isLoading
    /\ error # Null
    /\ prediction = Null

(* C4: a response with a success status whose body lacks predicted_quality *)
(* ends the attempt Failed, never Succeeded with a missing value.          *)
C4_MissingFieldFails ==
    [][ (ResponseSettles /\ calls[1].response.ok /\ ~HasQuality(calls[1].response.body))
            => (~isLoading' /\ error' # Null /\ prediction' = Null) ]_vars

(* C5: a response with a non-success status ends the attempt Failed(m),    *)
(* m the body's error field when it has one and the generic fallback       *)
(* otherwise, also when the body cannot be parsed.                         *)
C5_ApplicationErrorMessage ==
    [][ (ResponseSettles /\ ~calls[1].response.ok)
            => /\ ~isLoading'
               /\ prediction' = Null
               /\ error' = IF HasErrorField(calls[1].response.body)
                           THEN calls[1].response.body.data.error
                           ELSE Str(GenericMessage) ]_vars

\* what the application-error path can put into Failed(m)
ApplicationMessages ==
    {Str(GenericMessage)} \cup (ErrorFields \ {Undefined})

(* C6: a transport failure ends the attempt Failed(m), m the connectivity- *)
(* hinting message, which no application error produces.                   *)
C6_TransportMessageDistinct ==
    [][ TransportFails
            => /\ ~isLoading'
               /\ prediction' = Null
               /\ error' = Str(NetworkErrorMessage)
               /\ error' \notin ApplicationMessages ]_vars

(* C7: a response with a success status and a numeric predicted_quality v  *)
(* ends the attempt Succeeded(v): prediction is v, no error, not loading.  *)
C7_SuccessSetsPrediction ==
    [][ (ResponseSettles /\ calls[1].response.ok /\ HasQuality(calls[1].response.body))
            => /\ ~isLoading'
               /\ prediction' = calls[1].response.body.data.predicted_quality
               /\ error' = Null ]_vars

C7_Witness == Succeeded(Num(62000)) /\ issued >= 1

(* C8: an accepted predict() is made from a non-Pending outcome, moves it  *)
(* to Pending in the same step and clears the previous value and message;  *)
(* nothing of an earlier attempt shows while the request is in flight, and *)
(* when it resolves only its own value or message is set.                  *)
C8_SubmitSupersedes ==
    [][ /\ Submits => (~isLoading /\ isLoading' /\ prediction' = Null /\ error' = Null)
        /\ (isLoading /\ isLoading') => (prediction' = Null /\ error' = Null)
        /\ (ResponseSettles \/ TransportFails) => (prediction' = Null \/ error' = Null) ]_vars

\* a later request is on its way, the earlier outcome gone
C8_Witness ==
    /\ issued >= 2
    /\ Len(calls) = 1
    /\ calls[1].pc = "awaitFetch"
    /\ isLoading
    /\ prediction = Null
    /\ error = Null

(* C9: the request body has exactly the 8 wire fields, each equal to the   *)
(* value its feature holds when predict() is called.                       *)
C9_BodyMirrorsFeatures ==
    [][ Submits =>
            LET body == calls'[Len(calls')].request
            IN  /\ DOMAIN body = WireFields
                /\ \A n \in FeatureNames : body[WireName(n)] = features[n] ]_vars

(* C10: after a failure the outcome is not Pending, no request is          *)
(* outstanding, the predict button is enabled, and the next predict()      *)
(* moves the outcome to Pending with exactly one new request.              *)
C10_UsableAfterFailure ==
    /\ [](error # Null => (~isLoading /\ calls = <<>> /\ ~crashed /\ ~PredictDisabled))
    /\ [][ (error # Null /\ Submits)
              => (issued' = issued + 1 /\ Len(calls') = 1 /\ isLoading') ]_vars

\* Failed after the first attempt, a further request still within the bound
C10_Witness ==
    /\ issued = 1
    /\ error # Null
    /\ ~isLoading
    /\ calls = <<>>
====
